---------------------------- MODULE Spec2Model ----------------------------
(***************************************************************************)
(* Visual Novel Script Creator: the session lists of app.py and the        *)
(* export / analysis / validation functions of utils.py.                   *)
(*                                                                         *)
(* Representation.                                                         *)
(*  - A Python list is a sequence, a dict a record, None is PyNone.        *)
(*  - Option strings ("Main Character", "Critical", ...) and names are     *)
(*    TLA+ strings; "" is the empty (falsy) string.                        *)
(*  - story_concept is free text: a sequence of characters drawn from      *)
(*    ConceptChars, which holds a plain letter and the characters          *)
(*    json.dumps has to escape.                                            *)
(*  - Record fields that are copied verbatim and read by no branch         *)
(*    (age, personality, background, goals, description, themes, type,     *)
(*    dialogue) are left out of the records.                               *)
(***************************************************************************)
EXTENDS Integers, Sequences, FiniteSets, TLC

VARIABLES
    story_concept,    \* st.session_state.story_concept / the concept argument
    characters,       \* st.session_state.characters    / the characters argument
    story_arcs,       \* st.session_state.story_arcs    / the story_arcs argument
    milestones,       \* st.session_state.milestones    / the milestones argument
    dialogue_scenes,  \* st.session_state.dialogue_scenes / the scenes argument
    op,               \* the operation that ran last
    format_type,      \* the format_type argument of the last export
    export_result,    \* what the last export_script_format call returned
    analysis,         \* what the last analyze_story_structure call returned
    warnings,         \* what the last validate_story_structure call returned
    character_name,   \* the character_name argument of generate_dialogue_options
    situation,        \* its situation argument
    personality_traits,  \* its personality_traits argument, character by character
    options,          \* what the last generate_dialogue_options call returned
    widget_input      \* the run's input: the name typed into a submitted form, or
                      \* the milestone whose Delete button was clicked

vars == <<story_concept, characters, story_arcs, milestones, dialogue_scenes,
          op, format_type, export_result, analysis, warnings,
          character_name, situation, personality_traits, options, widget_input>>

dialogue_vars == <<character_name, situation, personality_traits, options>>

lists == <<characters, story_arcs, milestones, dialogue_scenes>>

-----------------------------------------------------------------------------
(* Bounds of the model *)

\* longest list of characters handed to validate / the CSV summary
MaxChars == 4
\* longest list of milestones handed to analyze / validate / the renderers
MaxMilestones == 4
\* longest list of story arcs handed to analyze / validate
MaxArcs == 2
\* number of characters of the longest story concept
MaxConcept == 2
\* longest list of each kind in the JSON round trip and under SpecFrame
MaxList == 2
\* longest list of milestones handed to the Markdown and CSV renderers
MaxExportMilestones == 3
\* largest chapter number of a milestone handed to the renderers
MaxExportChapter == 3
\* longest list of milestones in the pacing analysis
MaxPacingMilestones == 3
\* largest chapter number of a milestone
MaxChapter == 10
\* largest chapter number of an arc
MaxArcChapter == 3
\* number of records the session holds, over its four lists
MaxSession == 3
\* longest personality text handed to generate_dialogue_options, in words
MaxTraits == 3

-----------------------------------------------------------------------------
(* Values *)

PyNone == "<None>"

\* app.py:175, 179, 234, 298: number_input(min_value=1), the smallest chapter
MinChapter == 1

\* app.py:121
Roles == {"Main Character", "Love Interest", "Rival", "Friend", "Mentor",
          "Antagonist", "Supporting"}

\* app.py:243
Impacts == {"Low", "Medium", "High", "Critical"}

\* app.py:339
KnownFormats == {"JSON", "Markdown", "CSV Summary"}

\* format strings handed to export_script_format: the three the selectbox
\* offers, and strings it does not offer (wrong case, another name)
Formats == KnownFormats \cup {"json", "XML"}

\* readings of datetime.now().isoformat()
Clock == {"T1", "T2"}

\* the characters of a story concept: the plain letter n, the double quote,
\* the backslash, a newline, and a non-ASCII letter (U+00E9)
ConceptChars == {"n", "\"", "\\", "\n", "U+00E9"}

Range(s) == {s[i] : i \in DOMAIN s}

\* the sequences over S of length at most n
SeqUpTo(S, n) == UNION {[1..k -> S] : k \in 0..n}

Max(S) == CHOOSE x \in S : \A y \in S : y <= x

-----------------------------------------------------------------------------
(* utils.py: record factories *)

create_character(name, role, now) ==
    [name |-> name, role |-> role, created_at |-> now]

create_story_arc(name, start_chapter, end_chapter, chars, now) ==
    [name |-> name, start_chapter |-> start_chapter,
     end_chapter |-> end_chapter, characters |-> chars, created_at |-> now]

create_milestone(name, chapter, impact, related_arc, now) ==
    [name |-> name, chapter |-> chapter, impact |-> impact,
     related_arc |-> related_arc, created_at |-> now]

\* app.py:318-324, the scene dict literal
create_scene(name, chapter, chars, branches) ==
    [name |-> name, chapter |-> chapter, characters |-> chars,
     branches |-> branches]

-----------------------------------------------------------------------------
(* Python built-ins used by utils.py *)

\* bool(x) of a str or None
Truthy(s) == s # "" /\ s # PyNone

\* list.insert after every element whose key is not larger: one step of a
\* stable sort
RECURSIVE InsertByChapter(_, _)
InsertByChapter(sorted, m) ==
    IF sorted = <<>> THEN <<m>>
    ELSE IF sorted[Len(sorted)].chapter <= m.chapter THEN Append(sorted, m)
    ELSE Append(InsertByChapter(SubSeq(sorted, 1, Len(sorted) - 1), m),
                sorted[Len(sorted)])

\* sorted(ms, key=lambda x: x['chapter']): a new list, stable, ascending
RECURSIVE SortedByChapter(_)
SortedByChapter(ms) ==
    IF ms = <<>> THEN <<>>
    ELSE InsertByChapter(SortedByChapter(SubSeq(ms, 1, Len(ms) - 1)), ms[Len(ms)])

\* one step of list.sort() on a list of integers
RECURSIVE InsertInt(_, _)
InsertInt(sorted, n) ==
    IF sorted = <<>> THEN <<n>>
    ELSE IF sorted[Len(sorted)] <= n THEN Append(sorted, n)
    ELSE Append(InsertInt(SubSeq(sorted, 1, Len(sorted) - 1), n),
                sorted[Len(sorted)])

\* list.sort() on a list of integers, ascending
RECURSIVE SortInts(_)
SortInts(ns) ==
    IF ns = <<>> THEN <<>>
    ELSE InsertInt(SortInts(SubSeq(ns, 1, Len(ns) - 1)), ns[Len(ns)])

\* max(...) of a non-empty list of integers
MaxOf(ns) == Max(Range(ns))

\* ', '.join(names)
RECURSIVE Join(_)
Join(names) ==
    IF names = <<>> THEN <<>>
    ELSE IF Len(names) = 1 THEN names
    ELSE <<names[1], ", ">> \o Join(Tail(names))

\* xs.count(x)
Count(xs, x) == Cardinality({i \in DOMAIN xs : xs[i] = x})

-----------------------------------------------------------------------------
(* utils.py: generate_markdown_export                                      *)
(* md_content is a list of lines; a line is its fixed text (kind) with the *)
(* number and the text interpolated into it.                               *)

Line(kind, num, text) == [kind |-> kind, num |-> num, text |-> text]

\* utils.py:271-276
RECURSIVE MdCharacters(_)
MdCharacters(cs) ==
    IF cs = <<>> THEN <<>>
    ELSE << Line("### name (role)", 0, <<cs[1].name, cs[1].role>>),
            Line("- **Age:**", 0, <<>>),
            Line("- **Personality:**", 0, <<>>),
            Line("- **Background:**", 0, <<>>),
            Line("- **Goals:**", 0, <<>>) >> \o MdCharacters(Tail(cs))

\* utils.py:281-287
RECURSIVE MdArcs(_)
MdArcs(arcs) ==
    IF arcs = <<>> THEN <<>>
    ELSE << Line("### arc", 0, <<arcs[1].name>>),
            Line("**Chapters:** start", arcs[1].start_chapter, <<>>),
            Line("**Chapters:** end", arcs[1].end_chapter, <<>>),
            Line("**Description:**", 0, <<>>),
            Line("**Themes:**", 0, <<>>) >>
         \o (IF arcs[1].characters # <<>>
             THEN << Line("**Characters:**", 0, Join(arcs[1].characters)) >>
             ELSE <<>>)
         \o MdArcs(Tail(arcs))

\* utils.py:293-299, the loop over sorted_milestones
RECURSIVE MdMilestones(_)
MdMilestones(ms) ==
    IF ms = <<>> THEN <<>>
    ELSE << Line("### Chapter", ms[1].chapter, <<ms[1].name>>),
            Line("**Type:**", 0, <<>>),
            Line("**Impact:**", 0, <<ms[1].impact>>),
            Line("**Description:**", 0, <<>>) >>
         \o (IF Truthy(ms[1].related_arc)
             THEN << Line("**Related Arc:**", 0, <<ms[1].related_arc>>) >>
             ELSE <<>>)
         \o MdMilestones(Tail(ms))

\* utils.py:310-311, enumerate(scene['branches'], 1)
MdBranches(bs) == [i \in DOMAIN bs |-> Line("i. branch", i, <<bs[i]>>)]

\* utils.py:304-311
RECURSIVE MdScenes(_)
MdScenes(ss) ==
    IF ss = <<>> THEN <<>>
    ELSE << Line("### scene (Chapter)", ss[1].chapter, <<ss[1].name>>),
            Line("**Characters:**", 0, Join(ss[1].characters)),
            Line("**Dialogue:**", 0, <<>>) >>
         \o (IF ss[1].branches # <<>>
             THEN << Line("**Response Options:**", 0, <<>>) >>
                  \o MdBranches(ss[1].branches)
             ELSE <<>>)
         \o MdScenes(Tail(ss))

\* the milestone loop walking data['milestones'] itself, unsorted
MdUnsortedMilestones(ms) == ms

\* utils.py:292: the list the milestone loop walks
MdSortedMilestones(ms) == SortedByChapter(ms)

\* data['milestones'] after data['milestones'].sort(key=...), in place
MdMilestonesSortedInPlace(ms) == SortedByChapter(ms)

\* utils.py:292: data['milestones'] after the sort; sorted() builds a new
\* list and leaves its argument as it was
MdMilestonesAfter(ms) == ms

generate_markdown_export(data) ==
    << Line("# Visual Novel Script", 0, <<>>),
       Line("**Export Date:**", 0, <<data.export_date>>),
       Line("## Story Concept", 0, <<>>),
       Line("concept", 0, data.story_concept) >>
    \o (IF data.characters # <<>>
        THEN << Line("## Characters", 0, <<>>) >> \o MdCharacters(data.characters)
        ELSE <<>>)
    \o (IF data.story_arcs # <<>>
        THEN << Line("## Story Arcs", 0, <<>>) >> \o MdArcs(data.story_arcs)
        ELSE <<>>)
    \o (IF data.milestones # <<>>
        THEN << Line("## Story Milestones", 0, <<>>) >>
             \o MdMilestones(MdSortedMilestones(data.milestones))
        ELSE <<>>)
    \o (IF data.dialogue_scenes # <<>>
        THEN << Line("## Dialogue Scenes", 0, <<>>) >>
             \o MdScenes(data.dialogue_scenes)
        ELSE <<>>)

-----------------------------------------------------------------------------
(* utils.py: generate_csv_summary                                          *)
(* The DataFrame is its column names and its rows; to_csv(index=False)     *)
(* writes the header line and one "Metric,Count" line per row.             *)

Row(metric, count) == [Metric |-> metric, Count |-> count]

IsMain(c) == c.role = "Main Character"

\* every character that is not a Main Character counted as supporting
IsNotMain(c) == c.role # "Main Character"

IsSupporting(c) == c.role \notin {"Main Character", "Love Interest"}

ChapterOf(ms) == [i \in DOMAIN ms |-> ms[i].chapter]

\* the number of milestones taken for the number of chapters
CsvMilestoneCount(ms) == Len(ms)

\* utils.py:341
CsvEstimatedChapters(ms) ==
    IF ms # <<>> THEN MaxOf(ChapterOf(ms) \o <<0>>) ELSE 0

generate_csv_summary(data) ==
    [header |-> <<"Metric", "Count">>,
     rows |-> << Row("Total Characters", Len(data.characters)),
                 Row("Total Story Arcs", Len(data.story_arcs)),
                 Row("Total Milestones", Len(data.milestones)),
                 Row("Total Dialogue Scenes", Len(data.dialogue_scenes)),
                 Row("Estimated Chapters", CsvEstimatedChapters(data.milestones)),
                 Row("Main Characters", Len(SelectSeq(data.characters, IsMain))),
                 Row("Supporting Characters",
                     Len(SelectSeq(data.characters, IsSupporting))) >>]

-----------------------------------------------------------------------------
(* json.dumps(export_data, indent=2), utils.py:239 and 248                 *)
(* The text is a sequence of characters.  A run of plain ASCII letters     *)
(* that needs no escape (a key, a name, an option string, a clock          *)
(* reading) is carried as one element; every character json gives a        *)
(* meaning to (quote, backslash, newline, space, brackets, braces, comma,  *)
(* colon, digits, minus) is an element of its own.                         *)

\* the dict / list / str / int / None values json.dumps walks
JStr(cs) == [t |-> "str", s |-> cs, n |-> 0, items |-> <<>>, keys |-> <<>>]

JInt(n) == [t |-> "int", s |-> <<>>, n |-> n, items |-> <<>>, keys |-> <<>>]

JNull == [t |-> "null", s |-> <<>>, n |-> 0, items |-> <<>>, keys |-> <<>>]

JList(items) == [t |-> "list", s |-> <<>>, n |-> 0, items |-> items, keys |-> <<>>]

JObj(keys, vals) == [t |-> "obj", s |-> <<>>, n |-> 0, items |-> vals, keys |-> keys]

\* the characters of a str that is plain text
Plain(s) == IF s = "" THEN <<>> ELSE <<s>>

\* a str-or-None field
JStrOrNone(s) == IF s = PyNone THEN JNull ELSE JStr(Plain(s))

JNames(names) == JList([i \in DOMAIN names |-> JStr(Plain(names[i]))])

\* dict keys, each a plain str
Keys(names) == [i \in DOMAIN names |-> Plain(names[i])]

JCharacter(c) ==
    JObj(Keys(<<"name", "role", "created_at">>),
         <<JStr(Plain(c.name)), JStr(Plain(c.role)), JStr(Plain(c.created_at))>>)

JArc(a) ==
    JObj(Keys(<<"name", "start_chapter", "end_chapter", "characters", "created_at">>),
         <<JStr(Plain(a.name)), JInt(a.start_chapter), JInt(a.end_chapter),
           JNames(a.characters), JStr(Plain(a.created_at))>>)

JMilestone(m) ==
    JObj(Keys(<<"name", "chapter", "impact", "related_arc", "created_at">>),
         <<JStr(Plain(m.name)), JInt(m.chapter), JStr(Plain(m.impact)),
           JStrOrNone(m.related_arc), JStr(Plain(m.created_at))>>)

JScene(sc) ==
    JObj(Keys(<<"name", "chapter", "characters", "branches">>),
         <<JStr(Plain(sc.name)), JInt(sc.chapter), JNames(sc.characters),
           JNames(sc.branches)>>)

\* export_data as the value json.dumps is handed, keys in insertion order
JExportData(data) ==
    JObj(Keys(<<"story_concept", "characters", "story_arcs", "milestones",
                "dialogue_scenes", "export_date">>),
         <<JStr(data.story_concept),
           JList([i \in DOMAIN data.characters |-> JCharacter(data.characters[i])]),
           JList([i \in DOMAIN data.story_arcs |-> JArc(data.story_arcs[i])]),
           JList([i \in DOMAIN data.milestones |-> JMilestone(data.milestones[i])]),
           JList([i \in DOMAIN data.dialogue_scenes |-> JScene(data.dialogue_scenes[i])]),
           JStr(Plain(data.export_date))>>)

\* an encoder that forgets to escape the backslash
EscapeCharNoBackslash(c) ==
    CASE c = "\"" -> <<"\\", "\"">>
      [] c = "\n" -> <<"\\", "n">>
      [] c = "U+00E9" -> <<"\\", "u", "0", "0", "e", "9">>
      [] OTHER -> <<c>>

\* py_encode_basestring_ascii on one character (ensure_ascii is the default)
EscapeChar(c) ==
    CASE c = "\"" -> <<"\\", "\"">>
      [] c = "\\" -> <<"\\", "\\">>
      [] c = "\n" -> <<"\\", "n">>
      [] c = "U+00E9" -> <<"\\", "u", "0", "0", "e", "9">>
      [] OTHER -> <<c>>

RECURSIVE EscapeChars(_)
EscapeChars(cs) ==
    IF cs = <<>> THEN <<>> ELSE EscapeChar(cs[1]) \o EscapeChars(Tail(cs))

\* the encoded str, between double quotes
EncodeString(cs) == <<"\"">> \o EscapeChars(cs) \o <<"\"">>

Digit(d) == CASE d = 0 -> "0" [] d = 1 -> "1" [] d = 2 -> "2" [] d = 3 -> "3"
              [] d = 4 -> "4" [] d = 5 -> "5" [] d = 6 -> "6" [] d = 7 -> "7"
              [] d = 8 -> "8" [] d = 9 -> "9"

\* int.__repr__ of a natural number
RECURSIVE NatDigits(_)
NatDigits(n) ==
    IF n < 10 THEN <<Digit(n)>> ELSE Append(NatDigits(n \div 10), Digit(n % 10))

EncodeInt(n) == IF n < 0 THEN <<"-">> \o NatDigits(0 - n) ELSE NatDigits(n)

RECURSIVE Spaces(_)
Spaces(k) == IF k = 0 THEN <<>> ELSE <<" ">> \o Spaces(k - 1)

\* the newline and indentation json writes at nesting depth level, indent=2
NewlineIndent(level) == <<"\n">> \o Spaces(2 * level)

RECURSIVE Encode(_, _), EncodeItems(_, _, _), EncodeMembers(_, _, _, _)
\* _iterencode: the text of value v at nesting depth level
Encode(v, level) ==
    CASE v.t = "str" -> EncodeString(v.s)
      [] v.t = "int" -> EncodeInt(v.n)
      [] v.t = "null" -> <<"null">>
      [] v.t = "list" ->
            IF v.items = <<>> THEN <<"[", "]">>
            ELSE <<"[">> \o EncodeItems(v.items, 1, level + 1)
                 \o NewlineIndent(level) \o <<"]">>
      [] v.t = "obj" ->
            IF v.keys = <<>> THEN <<"{", "}">>
            ELSE <<"{">> \o EncodeMembers(v.keys, v.items, 1, level + 1)
                 \o NewlineIndent(level) \o <<"}">>

\* _iterencode_list: items i.. of a list, each on its own line
EncodeItems(items, i, level) ==
    IF i > Len(items) THEN <<>>
    ELSE (IF i > 1 THEN <<",">> ELSE <<>>)
         \o NewlineIndent(level) \o Encode(items[i], level)
         \o EncodeItems(items, i + 1, level)

\* _iterencode_dict: members i.. of a dict, each on its own line
EncodeMembers(keys, vals, i, level) ==
    IF i > Len(keys) THEN <<>>
    ELSE (IF i > 1 THEN <<",">> ELSE <<>>)
         \o NewlineIndent(level) \o EncodeString(keys[i]) \o <<":", " ">>
         \o Encode(vals[i], level)
         \o EncodeMembers(keys, vals, i + 1, level)

\* json.dumps(export_data, indent=2)
JsonDumps(data) == Encode(JExportData(data), 0)

-----------------------------------------------------------------------------
(* utils.py: export_script_format *)

\* str.strip() on a concept: leading and trailing newlines go
RECURSIVE Strip(_)
Strip(cs) ==
    IF cs = <<>> THEN cs
    ELSE IF cs[1] = "\n" THEN Strip(Tail(cs))
    ELSE IF cs[Len(cs)] = "\n" THEN Strip(SubSeq(cs, 1, Len(cs) - 1))
    ELSE cs

\* the bundle built from story_concept.strip()
ExportDataStripped(concept, chars, arcs, ms, scenes, now) ==
    [story_concept |-> Strip(concept), characters |-> chars, story_arcs |-> arcs,
     milestones |-> ms, dialogue_scenes |-> scenes, export_date |-> now]

\* utils.py:229-236
ExportData(concept, chars, arcs, ms, scenes, now) ==
    [story_concept |-> concept, characters |-> chars, story_arcs |-> arcs,
     milestones |-> ms, dialogue_scenes |-> scenes, export_date |-> now]

\* a call that returned text
Returned(text) == [raised |-> FALSE, text |-> text]

\* a call that raised
Raised == [raised |-> TRUE, text |-> <<>>]

\* an export that rejects a format it does not know
export_script_format_strict(concept, chars, arcs, ms, scenes, fmt, now) ==
    LET export_data == ExportData(concept, chars, arcs, ms, scenes, now) IN
    IF fmt = "JSON" THEN Returned(JsonDumps(export_data))
    ELSE IF fmt = "Markdown" THEN Returned(generate_markdown_export(export_data))
    ELSE IF fmt = "CSV Summary" THEN Returned(generate_csv_summary(export_data))
    ELSE Raised

\* utils.py:238-248
export_script_format(concept, chars, arcs, ms, scenes, fmt, now) ==
    LET export_data == ExportData(concept, chars, arcs, ms, scenes, now) IN
    IF fmt = "JSON" THEN Returned(JsonDumps(export_data))
    ELSE IF fmt = "Markdown" THEN Returned(generate_markdown_export(export_data))
    ELSE IF fmt = "CSV Summary" THEN Returned(generate_csv_summary(export_data))
    ELSE Returned(JsonDumps(export_data))

\* the four lists after export_script_format returns: only the Markdown
\* renderer sorts, and it sorts a copy (utils.py:292)
ExportListsAfter(chars, arcs, ms, scenes, fmt) ==
    <<chars, arcs, IF fmt = "Markdown" THEN MdMilestonesAfter(ms) ELSE ms, scenes>>

-----------------------------------------------------------------------------
(* utils.py: analyze_story_structure *)

\* f"Large gap between chapters {lo} and {hi}"
LargeGap(lo, hi) == [lo |-> lo, hi |-> hi]

\* utils.py:376-378: role -> number of characters with it
CharacterRoles(chars) ==
    [r \in {chars[i].role : i \in DOMAIN chars} |->
        Cardinality({i \in DOMAIN chars : chars[i].role = r})]

EndChapterOf(arcs) == [i \in DOMAIN arcs |-> arcs[i].end_chapter]

\* the later of the last milestone chapter and the last arc end
EstimatedLengthOverall(arcs, ms) ==
    IF ms # <<>> \/ arcs # <<>> THEN MaxOf(ChapterOf(ms) \o EndChapterOf(arcs))
    ELSE 0

\* utils.py:380-384
EstimatedLength(arcs, ms) ==
    IF ms # <<>> THEN MaxOf(ChapterOf(ms))
    ELSE IF arcs # <<>> THEN MaxOf(EndChapterOf(arcs))
    ELSE 0

\* a threshold that flags a gap of exactly 3
IsGapAtLeast3(gap) == gap >= 3

\* utils.py:393
IsLargeGap(gap) == gap > 3

\* utils.py:391-394: the loop over range(len(milestone_chapters) - 1), from i
RECURSIVE PacingLoop(_, _)
PacingLoop(milestone_chapters, i) ==
    IF i > Len(milestone_chapters) - 1 THEN <<>>
    ELSE LET gap == milestone_chapters[i + 1] - milestone_chapters[i] IN
         (IF IsLargeGap(gap)
          THEN <<LargeGap(milestone_chapters[i], milestone_chapters[i + 1])>>
          ELSE <<>>)
         \o PacingLoop(milestone_chapters, i + 1)

\* utils.py:387-394
PacingAnalysis(ms) ==
    IF ms # <<>> THEN PacingLoop(SortInts(ChapterOf(ms)), 1) ELSE <<>>

\* milestones after milestones.sort(key=...), in place
AnalyzeMilestonesSortedInPlace(ms) == SortedByChapter(ms)

\* utils.py:388-389: milestones after the sort; the comprehension builds the
\* list that is sorted in place, the argument is left as it was
AnalyzeMilestonesAfter(ms) == ms

analyze_story_structure(chars, arcs, ms) ==
    [character_count |-> Len(chars),
     arc_count |-> Len(arcs),
     milestone_count |-> Len(ms),
     estimated_length |-> EstimatedLength(arcs, ms),
     character_roles |-> CharacterRoles(chars),
     pacing_analysis |-> PacingAnalysis(ms)]

-----------------------------------------------------------------------------
(* utils.py: validate_story_structure *)

WarnNoMain == "Consider adding a Main Character to your story."

WarnManyMain ==
    "You have many Main Characters - consider if some should be Supporting characters."

WarnCoverage == "Some chapters may not be covered by any story arc."

WarnManyCritical ==
    "You have many Critical milestones - consider varying the impact levels."

WarnNoHighImpact ==
    "Consider adding some High or Critical impact milestones for dramatic tension."

\* a check that already warns at 3 Main Characters
CheckMainCharacterFrom3(chars) ==
    LET main_chars == SelectSeq(chars, IsMain) IN
    IF Len(main_chars) = 0 THEN <<WarnNoMain>>
    ELSE IF Len(main_chars) >= 3 THEN <<WarnManyMain>>
    ELSE <<>>

\* utils.py:417-421
CheckMainCharacter(chars) ==
    LET main_chars == SelectSeq(chars, IsMain) IN
    IF Len(main_chars) = 0 THEN <<WarnNoMain>>
    ELSE IF Len(main_chars) > 3 THEN <<WarnManyMain>>
    ELSE <<>>

\* the union of range(start_chapter, end_chapter): the end chapter left out
CoveredChaptersExclusive(arcs) ==
    UNION {arcs[i].start_chapter .. (arcs[i].end_chapter - 1) : i \in DOMAIN arcs}

\* utils.py:426-428: the union of range(start_chapter, end_chapter + 1)
CoveredChapters(arcs) ==
    UNION {arcs[i].start_chapter .. arcs[i].end_chapter : i \in DOMAIN arcs}

\* the coverage check with the covered chapters kept in a list: a chapter in
\* two arcs counted twice
CheckArcCoverageCounted(arcs) ==
    IF arcs # <<>>
    THEN LET total_chapters == MaxOf(EndChapterOf(arcs))
             covered_chapters ==
                 UNION {{<<i, c>> : c \in arcs[i].start_chapter .. arcs[i].end_chapter}
                           : i \in DOMAIN arcs} IN
         IF Cardinality(covered_chapters) < total_chapters
         THEN <<WarnCoverage>> ELSE <<>>
    ELSE <<>>

\* utils.py:424-431
CheckArcCoverage(arcs) ==
    IF arcs # <<>>
    THEN LET total_chapters == MaxOf(EndChapterOf(arcs))
             covered_chapters == CoveredChapters(arcs) IN
         IF Cardinality(covered_chapters) < total_chapters
         THEN <<WarnCoverage>> ELSE <<>>
    ELSE <<>>

\* the milestone checks without the guard on an empty list
CheckMilestoneImpactsUnguarded(ms) ==
    LET milestone_impacts == [i \in DOMAIN ms |-> ms[i].impact] IN
    (IF Count(milestone_impacts, "Critical") > 3
     THEN <<WarnManyCritical>> ELSE <<>>)
    \o (IF "High" \notin Range(milestone_impacts)
           /\ "Critical" \notin Range(milestone_impacts)
        THEN <<WarnNoHighImpact>> ELSE <<>>)

\* utils.py:434-439
CheckMilestoneImpacts(ms) ==
    IF ms # <<>> /\ Len(ms) > 0
    THEN LET milestone_impacts == [i \in DOMAIN ms |-> ms[i].impact] IN
         (IF Count(milestone_impacts, "Critical") > 3
          THEN <<WarnManyCritical>> ELSE <<>>)
         \o (IF "High" \notin Range(milestone_impacts)
                /\ "Critical" \notin Range(milestone_impacts)
             THEN <<WarnNoHighImpact>> ELSE <<>>)
    ELSE <<>>

validate_story_structure(chars, arcs, ms) ==
    CheckMainCharacter(chars) \o CheckArcCoverage(arcs) \o CheckMilestoneImpacts(ms)

-----------------------------------------------------------------------------
(* utils.py: generate_dialogue_options.  personality_traits is a sequence  *)
(* of characters, since lower() and the substring test read it character   *)
(* by character; an option is the sequence of the pieces of its f-string.  *)

UpperLetters == <<"A", "B", "C", "D", "E", "F", "G", "H", "I", "J", "K", "L", "M",
                  "N", "O", "P", "Q", "R", "S", "T", "U", "V", "W", "X", "Y", "Z">>

LowerLetters == <<"a", "b", "c", "d", "e", "f", "g", "h", "i", "j", "k", "l", "m",
                  "n", "o", "p", "q", "r", "s", "t", "u", "v", "w", "x", "y", "z">>

\* str.lower() of one character
LowerChar(c) ==
    IF \E i \in DOMAIN UpperLetters : UpperLetters[i] = c
    THEN LowerLetters[CHOOSE i \in DOMAIN UpperLetters : UpperLetters[i] = c]
    ELSE c

\* str.lower()
Lower(text) == [i \in DOMAIN text |-> LowerChar(text[i])]

\* sub in text
Contains(sub, text) ==
    \E i \in 0..(Len(text) - Len(sub)) :
        \A k \in 1..Len(sub) : text[i + k] = sub[k]

KeyConfident == <<"c", "o", "n", "f", "i", "d", "e", "n", "t">>

KeyShy == <<"s", "h", "y">>

KeyAggressive == <<"a", "g", "g", "r", "e", "s", "s", "i", "v", "e">>

\* utils.py:190-195
BaseOptions(sit) ==
    << <<"What should we do about ", sit, "?">>,
       <<"I think we need to consider our options here.">>,
       <<"This reminds me of something that happened before.">>,
       <<"Let's approach this carefully.">> >>

OptionConfident == <<"I know exactly what to do in this situation!">>

OptionShy == <<"Um... maybe we should think about this more?">>

OptionAggressive == <<"We need to take action now!">>

\* utils.py:198-203: the appends of the three personality tests
TraitOptions(traits) ==
    (IF Contains(KeyConfident, Lower(traits)) THEN <<OptionConfident>> ELSE <<>>)
    \o (IF Contains(KeyShy, Lower(traits)) THEN <<OptionShy>> ELSE <<>>)
    \o (IF Contains(KeyAggressive, Lower(traits)) THEN <<OptionAggressive>> ELSE <<>>)

\* utils.py:205: the slice [:4]
OptionsReturned == 4

\* xs[:n]
Prefix(xs, n) == SubSeq(xs, 1, IF Len(xs) < n THEN Len(xs) ELSE n)

\* the options without the final slice
generate_dialogue_options_all(name, sit, traits) ==
    BaseOptions(sit) \o TraitOptions(traits)

generate_dialogue_options(name, sit, traits) ==
    Prefix(BaseOptions(sit) \o TraitOptions(traits), OptionsReturned)

-----------------------------------------------------------------------------
(* The calls *)

NoResult == Returned(<<>>)

NoAnalysis == analyze_story_structure(<<>>, <<>>, <<>>)

\* nothing has been called yet
InitResults ==
    /\ op = "none"
    /\ format_type = ""
    /\ export_result = NoResult
    /\ analysis = NoAnalysis
    /\ warnings = <<>>
    /\ character_name = ""
    /\ situation = ""
    /\ personality_traits = <<>>
    /\ options = <<>>
    /\ widget_input = PyNone

\* export_script_format(story_concept, characters, story_arcs, milestones,
\*                      dialogue_scenes, fmt) at clock reading now
ExportScript(fmt, now) ==
    /\ op' = "export"
    /\ format_type' = fmt
    /\ export_result' = export_script_format(story_concept, characters, story_arcs,
                                             milestones, dialogue_scenes, fmt, now)
    /\ LET after == ExportListsAfter(characters, story_arcs, milestones,
                                      dialogue_scenes, fmt) IN
         /\ characters' = after[1]
         /\ story_arcs' = after[2]
         /\ milestones' = after[3]
         /\ dialogue_scenes' = after[4]
    /\ UNCHANGED <<story_concept, analysis, warnings>>
    /\ UNCHANGED dialogue_vars
    /\ widget_input' = PyNone

\* analyze_story_structure(characters, story_arcs, milestones)
Analyze ==
    /\ op' = "analyze"
    /\ analysis' = analyze_story_structure(characters, story_arcs, milestones)
    /\ milestones' = AnalyzeMilestonesAfter(milestones)
    /\ UNCHANGED <<story_concept, characters, story_arcs, dialogue_scenes,
                   format_type, export_result, warnings>>
    /\ UNCHANGED <<dialogue_vars, widget_input>>

\* validate_story_structure(characters, story_arcs, milestones)
Validate ==
    /\ op' = "validate"
    /\ warnings' = validate_story_structure(characters, story_arcs, milestones)
    /\ UNCHANGED <<story_concept, characters, story_arcs, milestones,
                   dialogue_scenes, format_type, export_result, analysis>>
    /\ UNCHANGED <<dialogue_vars, widget_input>>

\* generate_dialogue_options(character_name, situation, personality_traits)
GenerateDialogue ==
    /\ op' = "dialogue"
    /\ options' = generate_dialogue_options(character_name, situation,
                                            personality_traits)
    /\ UNCHANGED <<story_concept, characters, story_arcs, milestones,
                   dialogue_scenes, format_type, export_result, analysis,
                   warnings, character_name, situation, personality_traits,
                   widget_input>>

-----------------------------------------------------------------------------
(* Inputs of the pure functions *)

CharacterOf(role) == create_character("Ava", role, "T1")

ArcOf(start_chapter, end_chapter) ==
    create_story_arc("Arc", start_chapter, end_chapter, <<"Ava", "Ben">>, "T1")

MilestoneOf(name, chapter, impact, related_arc) ==
    create_milestone(name, chapter, impact, related_arc, "T1")

SceneOf(chapter) == create_scene("Scene", chapter, <<"Ava">>, <<"Yes", "No">>)

\* a few lists of each kind, for the inputs a specification does not vary
FewCharacters == {<<>>, <<CharacterOf("Main Character"), CharacterOf("Friend")>>}

FewArcs == {<<>>, <<ArcOf(1, 3)>>}

FewMilestones ==
    {<<>>, <<MilestoneOf("Duel", 2, "Low", "Arc"), MilestoneOf("Reveal", 1, "High", PyNone)>>}

FewScenes == {<<>>, <<SceneOf(1)>>}

RenderedMilestoneInputs ==
    {MilestoneOf(n, c, "High", PyNone) : n \in {"Reveal", "Duel"},
                                         c \in MinChapter..MaxExportChapter}

-----------------------------------------------------------------------------
(* SpecExport: export_script_format on bounded inputs *)

\* every concept, with a few lists
InitExportConcept ==
    /\ story_concept \in SeqUpTo(ConceptChars, MaxConcept)
    /\ characters \in FewCharacters
    /\ story_arcs = <<ArcOf(1, 3)>>
    /\ milestones \in FewMilestones
    /\ dialogue_scenes = <<SceneOf(1)>>

\* lists of every length, with a few concepts
InitExportLengths ==
    /\ story_concept \in {<<>>, <<"\"", "n">>}
    /\ characters \in SeqUpTo({CharacterOf("Main Character")}, MaxList)
    /\ story_arcs \in SeqUpTo({ArcOf(1, 3)}, MaxList)
    /\ milestones \in SeqUpTo({MilestoneOf("Duel", 2, "Low", "Arc")}, MaxList)
    /\ dialogue_scenes \in SeqUpTo({SceneOf(1)}, MaxList)

\* milestones in every order
InitExportMilestones ==
    /\ story_concept = <<"n">>
    /\ characters \in FewCharacters
    /\ story_arcs = <<>>
    /\ milestones \in SeqUpTo(RenderedMilestoneInputs, MaxExportMilestones)
    /\ dialogue_scenes = <<>>

\* characters of every role
InitExportCharacters ==
    /\ story_concept = <<"n">>
    /\ characters \in SeqUpTo({CharacterOf(r) : r \in {"Main Character",
                                   "Love Interest", "Rival", "Supporting"}}, MaxChars)
    /\ story_arcs = <<>>
    /\ milestones = <<>>
    /\ dialogue_scenes = <<>>

InitExport ==
    /\ InitResults
    /\ \/ InitExportConcept
       \/ InitExportLengths
       \/ InitExportMilestones
       \/ InitExportCharacters

\* one call on the inputs drawn
ExportNext ==
    /\ op = "none"
    /\ \E fmt \in Formats, now \in Clock : ExportScript(fmt, now)

SpecExport == InitExport /\ [][ExportNext]_vars

-----------------------------------------------------------------------------
(* json.loads: the reader the JSON export is written for.  It reads the    *)
(* text character by character and fails on anything that is not JSON.     *)

ParseOk(v, next) == [ok |-> TRUE, v |-> v, next |-> next]

ParseFail == [ok |-> FALSE, v |-> JNull, next |-> 0]

At(txt, i) == IF i \in 1..Len(txt) THEN txt[i] ELSE "<EOF>"

Digits == {"0", "1", "2", "3", "4", "5", "6", "7", "8", "9"}

DigitValue(c) == CHOOSE d \in 0..9 : Digit(d) = c

\* the position of the first character at or after i that is not whitespace
RECURSIVE SkipWs(_, _)
SkipWs(txt, i) ==
    IF At(txt, i) \in {" ", "\n"} THEN SkipWs(txt, i + 1) ELSE i

\* py_scanstring from position i, inside a string, acc read so far
RECURSIVE ScanString(_, _, _)
ScanString(txt, i, acc) ==
    LET c == At(txt, i) IN
    CASE c = "<EOF>" -> ParseFail
      [] c = "\"" -> ParseOk(JStr(acc), i + 1)
      [] c = "\n" -> ParseFail
      [] c = "\\" ->
            LET e == At(txt, i + 1) IN
            CASE e = "\"" -> ScanString(txt, i + 2, Append(acc, "\""))
              [] e = "\\" -> ScanString(txt, i + 2, Append(acc, "\\"))
              [] e = "n" -> ScanString(txt, i + 2, Append(acc, "\n"))
              [] e = "u" ->
                    IF <<At(txt, i + 2), At(txt, i + 3), At(txt, i + 4), At(txt, i + 5)>>
                       = <<"0", "0", "e", "9">>
                    THEN ScanString(txt, i + 6, Append(acc, "U+00E9"))
                    ELSE ParseFail
              [] OTHER -> ParseFail
      [] OTHER -> ScanString(txt, i + 1, Append(acc, c))

\* the digits of a number from position i, n read so far
RECURSIVE ScanDigits(_, _, _)
ScanDigits(txt, i, n) ==
    IF At(txt, i) \in Digits
    THEN ScanDigits(txt, i + 1, 10 * n + DigitValue(At(txt, i)))
    ELSE ParseOk(JInt(n), i)

ScanNumber(txt, i) ==
    IF At(txt, i) = "-"
    THEN IF At(txt, i + 1) \in Digits
         THEN LET r == ScanDigits(txt, i + 1, 0) IN ParseOk(JInt(0 - r.v.n), r.next)
         ELSE ParseFail
    ELSE ScanDigits(txt, i, 0)

RECURSIVE ScanValue(_, _), ScanItems(_, _, _), ScanMembers(_, _, _, _)
\* scan_once: the value that starts at position i
ScanValue(txt, i) ==
    LET c == At(txt, i) IN
    CASE c = "\"" -> ScanString(txt, i + 1, <<>>)
      [] c = "null" -> ParseOk(JNull, i + 1)
      [] c \in Digits \cup {"-"} -> ScanNumber(txt, i)
      [] c = "[" ->
            LET j == SkipWs(txt, i + 1) IN
            IF At(txt, j) = "]" THEN ParseOk(JList(<<>>), j + 1)
            ELSE ScanItems(txt, j, <<>>)
      [] c = "{" ->
            LET j == SkipWs(txt, i + 1) IN
            IF At(txt, j) = "}" THEN ParseOk(JObj(<<>>, <<>>), j + 1)
            ELSE ScanMembers(txt, j, <<>>, <<>>)
      [] OTHER -> ParseFail

\* JSONArray: the items from position i, acc read so far
ScanItems(txt, i, acc) ==
    LET r == ScanValue(txt, i) IN
    IF ~r.ok THEN ParseFail
    ELSE LET j == SkipWs(txt, r.next) IN
         CASE At(txt, j) = "," -> ScanItems(txt, SkipWs(txt, j + 1), Append(acc, r.v))
           [] At(txt, j) = "]" -> ParseOk(JList(Append(acc, r.v)), j + 1)
           [] OTHER -> ParseFail

\* JSONObject: the members from position i, keys and vals read so far
ScanMembers(txt, i, keys, vals) ==
    IF At(txt, i) # "\"" THEN ParseFail
    ELSE LET k == ScanString(txt, i + 1, <<>>) IN
         IF ~k.ok THEN ParseFail
         ELSE LET c == SkipWs(txt, k.next) IN
              IF At(txt, c) # ":" THEN ParseFail
              ELSE LET r == ScanValue(txt, SkipWs(txt, c + 1)) IN
                   IF ~r.ok THEN ParseFail
                   ELSE LET j == SkipWs(txt, r.next) IN
                        CASE At(txt, j) = "," ->
                                ScanMembers(txt, SkipWs(txt, j + 1),
                                            Append(keys, k.v.s), Append(vals, r.v))
                          [] At(txt, j) = "}" ->
                                ParseOk(JObj(Append(keys, k.v.s), Append(vals, r.v)),
                                        j + 1)
                          [] OTHER -> ParseFail

\* json.loads(text): the value, or a failure (JSONDecodeError)
JsonLoads(txt) ==
    LET r == ScanValue(txt, SkipWs(txt, 1)) IN
    IF r.ok /\ SkipWs(txt, r.next) = Len(txt) + 1 THEN r ELSE ParseFail

\* obj[key]
HasKey(obj, key) == \E i \in DOMAIN obj.keys : obj.keys[i] = Plain(key)

Get(obj, key) == obj.items[CHOOSE i \in DOMAIN obj.keys : obj.keys[i] = Plain(key)]

-----------------------------------------------------------------------------
(* Reading the exports back *)

\* the positions of the milestone headings in a Markdown export, in order
MilestoneHeadings(lines) ==
    SelectSeq([i \in 1..Len(lines) |-> i], LAMBDA i : lines[i].kind = "### Chapter")

\* what a Markdown export shows of a milestone
Shown(m) ==
    [chapter |-> m.chapter, name |-> m.name, impact |-> m.impact,
     related_arc |-> IF Truthy(m.related_arc) THEN m.related_arc ELSE PyNone]

\* the milestones a Markdown export shows, in the order it shows them: each
\* heading with the impact line and the related-arc line under it
RenderedMilestones(lines) ==
    LET at == MilestoneHeadings(lines) IN
    [k \in DOMAIN at |->
        [chapter |-> lines[at[k]].num,
         name |-> lines[at[k]].text[1],
         impact |-> lines[at[k] + 2].text[1],
         related_arc |-> IF at[k] + 4 <= Len(lines)
                            /\ lines[at[k] + 4].kind = "**Related Arc:**"
                         THEN lines[at[k] + 4].text[1] ELSE PyNone]]

\* b holds the elements of a, each as often as a does
IsPermutation(a, b) ==
    /\ Len(a) = Len(b)
    /\ \A x \in Range(a) \cup Range(b) : Count(a, x) = Count(b, x)

\* the row of a CSV summary with the given metric
CsvCount(csv, metric) ==
    LET i == CHOOSE j \in DOMAIN csv.rows : csv.rows[j].Metric = metric IN
    csv.rows[i].Count

MarkdownExported == op = "export" /\ format_type = "Markdown"

CsvExported == op = "export" /\ format_type = "CSV Summary"

-----------------------------------------------------------------------------
(* C1: the Markdown export shows the milestones as a permutation of the    *)
(* input list in non-decreasing chapter order: every input milestone is    *)
(* shown exactly once, and no milestone shown has a smaller chapter than   *)
(* the one shown before it.                                                *)
C1_MarkdownMilestonesSorted ==
    MarkdownExported =>
        LET shown == RenderedMilestones(export_result.text) IN
        /\ ~export_result.raised
        /\ IsPermutation([i \in DOMAIN milestones |-> Shown(milestones[i])], shown)
        /\ \A k \in 1..(Len(shown) - 1) : shown[k].chapter <= shown[k + 1].chapter

\* a Markdown export of three milestones handed over out of order, two of
\* them in the same chapter
C1_Witness ==
    /\ MarkdownExported
    /\ Len(milestones) = 3
    /\ milestones[1].chapter > milestones[2].chapter
    /\ milestones[2].chapter = milestones[3].chapter
    /\ milestones[2].name # milestones[3].name

(* C2: the "Estimated Chapters" row of the CSV summary is the largest      *)
(* chapter of the milestones, and 0 when there is no milestone.            *)
C2_CsvEstimatedChapters ==
    CsvExported =>
        LET n == CsvCount(export_result.text, "Estimated Chapters") IN
        /\ Count([i \in DOMAIN export_result.text.rows |->
                    export_result.text.rows[i].Metric], "Estimated Chapters") = 1
        /\ milestones = <<>> => n = 0
        /\ milestones # <<>> =>
              /\ \E i \in DOMAIN milestones : milestones[i].chapter = n
              /\ \A i \in DOMAIN milestones : milestones[i].chapter <= n

\* a CSV summary of milestones whose largest chapter is neither the last
\* one's nor the number of milestones
C2_Witness ==
    /\ CsvExported
    /\ Len(milestones) = 2
    /\ milestones[1].chapter = 3
    /\ milestones[2].chapter = 1

\* a CSV summary of no milestone
C2_WitnessEmpty == CsvExported /\ milestones = <<>>

JsonExported == op = "export" /\ format_type = "JSON"

(* C3: the JSON export round-trips: parsing it gives a bundle whose        *)
(* story_concept is the concept handed in, character for character, and    *)
(* whose characters, story_arcs, milestones and dialogue_scenes lists are  *)
(* as long as the lists handed in.                                         *)
C3_JsonRoundTrip ==
    JsonExported =>
        /\ ~export_result.raised
        /\ LET r == JsonLoads(export_result.text) IN
           /\ r.ok
           /\ r.v.t = "obj"
           /\ \A k \in {"story_concept", "characters", "story_arcs", "milestones",
                        "dialogue_scenes"} : HasKey(r.v, k)
           /\ Get(r.v, "story_concept") = JStr(story_concept)
           /\ Get(r.v, "characters").t = "list"
           /\ Len(Get(r.v, "characters").items) = Len(characters)
           /\ Get(r.v, "story_arcs").t = "list"
           /\ Len(Get(r.v, "story_arcs").items) = Len(story_arcs)
           /\ Get(r.v, "milestones").t = "list"
           /\ Len(Get(r.v, "milestones").items) = Len(milestones)
           /\ Get(r.v, "dialogue_scenes").t = "list"
           /\ Len(Get(r.v, "dialogue_scenes").items) = Len(dialogue_scenes)

\* a JSON export of a concept that holds a backslash followed by a quote
C3_Witness ==
    /\ JsonExported
    /\ story_concept = <<"\\", "\"">>
    /\ Len(export_result.text) > 0

\* a JSON export of lists of different lengths, one of them empty
C3_WitnessLengths ==
    /\ JsonExported
    /\ Len(characters) = 2
    /\ Len(story_arcs) = 1
    /\ Len(milestones) = 0
    /\ Len(dialogue_scenes) = 2

\* the whole bundle comes back from the JSON export, not only the concept
\* and the lengths
JsonRoundTripWhole ==
    JsonExported =>
        \E now \in Clock :
            JsonLoads(export_result.text)
              = ParseOk(JExportData(ExportData(story_concept, characters, story_arcs,
                                               milestones, dialogue_scenes, now)),
                        Len(export_result.text) + 1)

UnknownFormatExported == op = "export" /\ format_type \notin KnownFormats

(* C8: for a format string other than "JSON", "Markdown" and "CSV Summary" *)
(* the export raises no error and returns what JSON mode returns for the   *)
(* same concept and lists, up to the export_date.                          *)
C8_UnknownFormatIsJson ==
    UnknownFormatExported =>
        /\ ~export_result.raised
        /\ \E now \in Clock :
              export_result =
                  export_script_format(story_concept, characters, story_arcs,
                                       milestones, dialogue_scenes, "JSON", now)

\* an export in a format the selectbox does not offer, of a bundle with
\* records in every list
C8_Witness ==
    /\ UnknownFormatExported
    /\ format_type = "XML"
    /\ characters # <<>> /\ story_arcs # <<>>
    /\ milestones # <<>> /\ dialogue_scenes # <<>>
    /\ Len(export_result.text) > 0

-----------------------------------------------------------------------------
\* the number of characters with one of the roles
NumWithRole(roles) ==
    Cardinality({i \in DOMAIN characters : characters[i].role \in roles})

(* C11: in the CSV summary "Main Characters" is the number of characters   *)
(* whose role is "Main Character" and "Supporting Characters" the number   *)
(* whose role is neither "Main Character" nor "Love Interest"; so Main     *)
(* Characters + Supporting Characters + the number of "Love Interest"      *)
(* characters is the "Total Characters" row.                               *)
C11_CsvCharacterCounts ==
    CsvExported =>
        LET csv == export_result.text IN
        /\ CsvCount(csv, "Main Characters") = NumWithRole({"Main Character"})
        /\ CsvCount(csv, "Supporting Characters")
              = NumWithRole(Roles \ {"Main Character", "Love Interest"})
        /\ CsvCount(csv, "Main Characters") + CsvCount(csv, "Supporting Characters")
              + NumWithRole({"Love Interest"}) = CsvCount(csv, "Total Characters")
        /\ \A i \in DOMAIN characters : characters[i].role \in Roles

\* a CSV summary of four characters: a Main Character, a Love Interest and
\* two of other roles
C11_Witness ==
    /\ CsvExported
    /\ Len(characters) = 4
    /\ NumWithRole({"Main Character"}) = 1
    /\ NumWithRole({"Love Interest"}) = 1
    /\ NumWithRole({"Rival"}) = 1
    /\ NumWithRole({"Supporting"}) = 1
    /\ CsvCount(export_result.text, "Supporting Characters") = 2

-----------------------------------------------------------------------------
(* SpecAnalyze: analyze_story_structure on bounded inputs *)

ArcInputs ==
    {create_story_arc("Arc", s, e, <<>>, "T1") : s \in MinChapter..MaxArcChapter,
                                                  e \in MinChapter..MaxArcChapter}

RoleInputs ==
    {CharacterOf(r) : r \in {"Main Character", "Love Interest", "Supporting"}}

\* milestones in every chapter and order
InitAnalyzeMilestones ==
    /\ characters \in FewCharacters
    /\ story_arcs \in FewArcs
    /\ milestones \in SeqUpTo({MilestoneOf("Reveal", c, "High", PyNone) :
                                   c \in MinChapter..MaxChapter}, MaxPacingMilestones)

\* arcs over every range
InitAnalyzeArcs ==
    /\ characters \in FewCharacters
    /\ story_arcs \in SeqUpTo(ArcInputs, MaxArcs)
    /\ milestones \in FewMilestones

\* characters of every role
InitAnalyzeCharacters ==
    /\ characters \in SeqUpTo(RoleInputs, MaxChars)
    /\ story_arcs \in FewArcs
    /\ milestones \in FewMilestones

InitAnalyze ==
    /\ InitResults
    /\ story_concept = <<>>
    /\ dialogue_scenes = <<>>
    /\ \/ InitAnalyzeMilestones
       \/ InitAnalyzeArcs
       \/ InitAnalyzeCharacters

\* one call on the inputs drawn
AnalyzeNext == op = "none" /\ Analyze

SpecAnalyze == InitAnalyze /\ [][AnalyzeNext]_vars

Analyzed == op = "analyze"

\* the chapters that have a milestone
MilestoneChapters == {milestones[i].chapter : i \in DOMAIN milestones}

\* the pairs of chapters with a milestone, no milestone in between and more
\* than 3 apart
LargeGaps ==
    {g \in MilestoneChapters \X MilestoneChapters :
        /\ g[2] - g[1] > 3
        /\ ~\E c \in MilestoneChapters : g[1] < c /\ c < g[2]}

(* C4: pacing_analysis holds exactly one entry for each pair of adjacent   *)
(* chapters of the ascending list of milestone chapters that are more than *)
(* 3 apart, naming the two chapters, in ascending order, and nothing else; *)
(* a difference of exactly 3 gives no entry, and no or one milestone gives *)
(* an empty list.                                                          *)
C4_PacingGaps ==
    Analyzed =>
        LET gaps == analysis.pacing_analysis IN
        /\ Len(gaps) = Cardinality(LargeGaps)
        /\ \A k \in DOMAIN gaps : <<gaps[k].lo, gaps[k].hi>> \in LargeGaps
        /\ \A k \in 1..(Len(gaps) - 1) : gaps[k].lo < gaps[k + 1].lo
        /\ Len(milestones) <= 1 => gaps = <<>>

\* an analysis of milestones handed over out of order, with one difference
\* of exactly 3 and one of more
C4_Witness ==
    /\ Analyzed
    /\ ChapterOf(milestones) = <<9, 1, 4>>
    /\ analysis.pacing_analysis = <<LargeGap(4, 9)>>

\* an analysis of chapters 1, 2, 10: one entry, from 2 to 10
C4_WitnessExample ==
    /\ Analyzed
    /\ ChapterOf(milestones) = <<1, 2, 10>>
    /\ analysis.pacing_analysis = <<LargeGap(2, 10)>>

(* C10: estimated_length is the largest milestone chapter when there is a  *)
(* milestone, otherwise the largest arc end_chapter when there is an arc,  *)
(* otherwise 0; an arc that ends later than every milestone does not       *)
(* count.                                                                  *)
C10_EstimatedLength ==
    Analyzed =>
        LET n == analysis.estimated_length IN
        /\ milestones # <<>> =>
              /\ \E i \in DOMAIN milestones : milestones[i].chapter = n
              /\ \A i \in DOMAIN milestones : milestones[i].chapter <= n
        /\ milestones = <<>> /\ story_arcs # <<>> =>
              /\ \E i \in DOMAIN story_arcs : story_arcs[i].end_chapter = n
              /\ \A i \in DOMAIN story_arcs : story_arcs[i].end_chapter <= n
        /\ milestones = <<>> /\ story_arcs = <<>> => n = 0

\* an analysis of milestones and an arc that ends after the last of them
C10_Witness ==
    /\ Analyzed
    /\ milestones # <<>>
    /\ \E i \in DOMAIN story_arcs :
          \A j \in DOMAIN milestones :
              story_arcs[i].end_chapter > milestones[j].chapter

\* an analysis of arcs alone, the last one not the longest
C10_WitnessArcs ==
    /\ Analyzed
    /\ milestones = <<>>
    /\ Len(story_arcs) = 2
    /\ story_arcs[1].end_chapter > story_arcs[2].end_chapter

-----------------------------------------------------------------------------
(* SpecValidate: validate_story_structure on bounded inputs *)

InitValidateCharacters ==
    /\ characters \in SeqUpTo(RoleInputs, MaxChars)
    /\ story_arcs \in FewArcs
    /\ milestones \in FewMilestones

InitValidateArcs ==
    /\ characters \in FewCharacters
    /\ story_arcs \in SeqUpTo(ArcInputs, MaxArcs)
    /\ milestones \in FewMilestones

InitValidateMilestones ==
    /\ characters \in FewCharacters
    /\ story_arcs \in FewArcs
    /\ milestones \in SeqUpTo({MilestoneOf("Reveal", 1, i, PyNone) : i \in Impacts},
                              MaxMilestones)

InitValidate ==
    /\ InitResults
    /\ story_concept = <<>>
    /\ dialogue_scenes = <<>>
    /\ \/ InitValidateCharacters
       \/ InitValidateArcs
       \/ InitValidateMilestones

\* one call on the inputs drawn
ValidateNext == op = "none" /\ Validate

SpecValidate == InitValidate /\ [][ValidateNext]_vars

Validated == op = "validate"

Warned(w) == w \in Range(warnings)

NumMain == Cardinality({i \in DOMAIN characters : characters[i].role = "Main Character"})

NumCritical == Cardinality({i \in DOMAIN milestones : milestones[i].impact = "Critical"})

(* C5: the 'add a Main Character' warning is returned exactly when no      *)
(* character has role "Main Character" (also when there is no character),  *)
(* the 'many Main Characters' warning exactly when more than 3 have it,    *)
(* neither for 1, 2 or 3, and never both.                                  *)
C5_MainCharacterWarnings ==
    Validated =>
        /\ Warned(WarnNoMain) <=> NumMain = 0
        /\ Warned(WarnManyMain) <=> NumMain > 3
        /\ NumMain \in 1..3 => ~Warned(WarnNoMain) /\ ~Warned(WarnManyMain)
        /\ ~(Warned(WarnNoMain) /\ Warned(WarnManyMain))

\* a validation of four Main Characters among others
C5_Witness ==
    /\ Validated
    /\ NumMain = 4
    /\ Warned(WarnManyMain)

\* a validation of exactly three Main Characters
C5_WitnessThree == Validated /\ NumMain = 3 /\ ~Warned(WarnManyMain)

\* a validation of no character at all
C5_WitnessNone == Validated /\ characters = <<>> /\ Warned(WarnNoMain)

(* C6: with milestones, the 'many Critical milestones' warning is returned *)
(* exactly when more than 3 milestones are "Critical" and the 'add High or *)
(* Critical' warning exactly when none is "High" or "Critical"; without    *)
(* milestones neither is returned.                                         *)
C6_MilestoneWarnings ==
    Validated =>
        /\ milestones # <<>> =>
              /\ Warned(WarnManyCritical) <=> NumCritical > 3
              /\ Warned(WarnNoHighImpact) <=>
                    ~\E i \in DOMAIN milestones :
                        milestones[i].impact \in {"High", "Critical"}
        /\ milestones = <<>> =>
              ~Warned(WarnManyCritical) /\ ~Warned(WarnNoHighImpact)

\* a validation of four Critical milestones
C6_Witness ==
    /\ Validated
    /\ NumCritical = 4
    /\ Warned(WarnManyCritical)

\* a validation of no milestone
C6_WitnessEmpty == Validated /\ milestones = <<>> /\ characters # <<>>

\* a validation of Low and Medium milestones only
C6_WitnessLow ==
    /\ Validated
    /\ Len(milestones) = 2
    /\ Warned(WarnNoHighImpact)

\* the chapters that lie in the inclusive range of some arc
ChaptersInSomeArc ==
    {c \in 0..(MaxArcChapter + 1) :
        \E i \in DOMAIN story_arcs :
            story_arcs[i].start_chapter <= c /\ c <= story_arcs[i].end_chapter}

(* C7: with arcs, the 'chapters may not be covered' warning is returned    *)
(* exactly when the number of distinct chapters in the union of the        *)
(* inclusive ranges [start_chapter, end_chapter] of the arcs is less than  *)
(* the largest end_chapter; without arcs it is never returned.             *)
C7_CoverageWarning ==
    Validated =>
        /\ story_arcs # <<>> =>
              (Warned(WarnCoverage) <=>
                  \E i \in DOMAIN story_arcs :
                      /\ \A j \in DOMAIN story_arcs :
                            story_arcs[j].end_chapter <= story_arcs[i].end_chapter
                      /\ Cardinality(ChaptersInSomeArc) < story_arcs[i].end_chapter)
        /\ story_arcs = <<>> => ~Warned(WarnCoverage)

\* a validation of two arcs that leave the chapter between them uncovered
C7_Witness ==
    /\ Validated
    /\ Len(story_arcs) = 2
    /\ story_arcs[1].start_chapter = 3 /\ story_arcs[1].end_chapter = 3
    /\ story_arcs[2].start_chapter = 1 /\ story_arcs[2].end_chapter = 1
    /\ Warned(WarnCoverage)

\* a validation of two overlapping arcs that cover every chapter
C7_WitnessOverlap ==
    /\ Validated
    /\ Len(story_arcs) = 2
    /\ story_arcs[1].start_chapter = 1 /\ story_arcs[1].end_chapter = 2
    /\ story_arcs[2].start_chapter = 2 /\ story_arcs[2].end_chapter = 3
    /\ ~Warned(WarnCoverage)

-----------------------------------------------------------------------------
\* chapter c lies in the inclusive range of no arc
InNoArc(c) ==
    \A j \in DOMAIN story_arcs :
        ~(story_arcs[j].start_chapter <= c /\ c <= story_arcs[j].end_chapter)

(* C15: when every arc starts at chapter 1 or later, the 'chapters may not *)
(* be covered' warning is returned if and only if some chapter from 1 to   *)
(* the largest end_chapter lies in no arc's inclusive range                *)
(* [start_chapter, end_chapter]; arcs may overlap, and an arc with         *)
(* start_chapter > end_chapter covers nothing.                             *)
C15_CoverageExact ==
    (/\ Validated
     /\ story_arcs # <<>>
     /\ \A i \in DOMAIN story_arcs : story_arcs[i].start_chapter >= MinChapter)
    => (Warned(WarnCoverage) <=>
           \E c \in MinChapter..(MaxArcChapter + 1) :
               /\ \E i \in DOMAIN story_arcs : c <= story_arcs[i].end_chapter
               /\ InNoArc(c))

\* an arc that covers nothing (3 > 2) and an arc over chapter 1 only:
\* chapter 2 is in no arc, and the warning is returned
C15_Witness ==
    /\ Validated
    /\ Len(story_arcs) = 2
    /\ story_arcs[1].start_chapter = 3 /\ story_arcs[1].end_chapter = 2
    /\ story_arcs[2].start_chapter = 1 /\ story_arcs[2].end_chapter = 1
    /\ InNoArc(2)
    /\ Warned(WarnCoverage)

\* two equal arcs over chapters 2..3: chapter 1 is in no arc
C15_WitnessOverlap ==
    /\ Validated
    /\ Len(story_arcs) = 2
    /\ \A i \in 1..2 : story_arcs[i].start_chapter = 2 /\ story_arcs[i].end_chapter = 3
    /\ Warned(WarnCoverage)

-----------------------------------------------------------------------------
(* SpecFrame: the three functions on lists of every kind *)

InitFrame ==
    /\ InitResults
    /\ story_concept = <<"n">>
    /\ characters \in FewCharacters
    /\ story_arcs \in FewArcs
    /\ milestones \in SeqUpTo({MilestoneOf("Reveal", 3, "High", PyNone),
                               MilestoneOf("Duel", 1, "Critical", "Arc"),
                               MilestoneOf("Truce", 2, "Low", PyNone)}, MaxList)
    /\ dialogue_scenes \in FewScenes

\* one call on the inputs drawn
FrameNext ==
    /\ op = "none"
    /\ \/ \E fmt \in Formats, now \in Clock : ExportScript(fmt, now)
       \/ Analyze
       \/ Validate

SpecFrame == InitFrame /\ [][FrameNext]_vars

(* C9: export_script_format in every format (the Markdown mode that sorts  *)
(* milestones included), analyze_story_structure and                       *)
(* validate_story_structure leave the lists handed to them unchanged: the  *)
(* characters, story_arcs, milestones and dialogue_scenes lists hold the   *)
(* same records in the same order after the call as before it.             *)
C9_ListsUnchanged ==
    [][op' \in {"export", "analyze", "validate"} => lists' = lists]_vars

\* a Markdown export of milestones that were handed over out of order, and
\* are still in that order
C9_Witness ==
    /\ MarkdownExported
    /\ Len(milestones) = 2
    /\ milestones[1].chapter > milestones[2].chapter
    /\ RenderedMilestones(export_result.text)[1].chapter = milestones[2].chapter

\* an analysis of milestones that were handed over out of order
C9_WitnessAnalyze ==
    /\ Analyzed
    /\ Len(milestones) = 2
    /\ milestones[1].chapter > milestones[2].chapter

-----------------------------------------------------------------------------
(* SpecDialogue: generate_dialogue_options on bounded inputs *)

\* words of a personality text
TraitWords ==
    {KeyConfident,
     <<"S", "h", "y">>,
     <<"A", "G", "G", "R", "E", "S", "S", "I", "V", "E">>,
     <<"k", "i", "n", "d">>,
     <<"O", "v", "e", "r", "c", "o", "n", "f", "i", "d", "e", "n", "t">>}

\* the words separated by ", "
RECURSIVE TraitsText(_)
TraitsText(words) ==
    IF words = <<>> THEN <<>>
    ELSE IF Len(words) = 1 THEN words[1]
    ELSE words[1] \o <<",", " ">> \o TraitsText(Tail(words))

Situations == {"", "the storm", "shy rivals"}

SpeakerNames == {"Ava", ""}

InitDialogue ==
    /\ op = "none"
    /\ format_type = ""
    /\ export_result = NoResult
    /\ analysis = NoAnalysis
    /\ warnings = <<>>
    /\ story_concept = <<>>
    /\ characters = <<>>
    /\ story_arcs = <<>>
    /\ milestones = <<>>
    /\ dialogue_scenes = <<>>
    /\ character_name \in SpeakerNames
    /\ situation \in Situations
    /\ personality_traits \in {TraitsText(ws) : ws \in SeqUpTo(TraitWords, MaxTraits)}
    /\ options = <<>>
    /\ widget_input = PyNone

\* one call on the inputs drawn
DialogueNext == op = "none" /\ GenerateDialogue

SpecDialogue == InitDialogue /\ [][DialogueNext]_vars

Dialogued == op = "dialogue"

HasTrait(key) == Contains(key, Lower(personality_traits))

-----------------------------------------------------------------------------
(* Spec: the session of app.py.  Every interaction reruns the script; the  *)
(* lists live in st.session_state, the text of an export only in the run   *)
(* that generated it.                                                      *)

\* what the text inputs of the forms are filled with; "" is a name left empty
CharacterNames == {"Ava", ""}

ArcNames == {"Arc", ""}

MilestoneNames == {"Reveal", "Duel", ""}

SessionConcepts == {<<"n">>}

\* the clock reading of a session run; two runs may read the same
SessionClock == {"T1"}

\* app.py:175, 179, 234: number_input(min_value=1)
SessionChapters == MinChapter..(MinChapter + 1)

\* list.pop(i), i counted from 1
RemoveAt(xs, i) == SubSeq(xs, 1, i - 1) \o SubSeq(xs, i + 1, Len(xs))

\* list.index(x), counted from 1: the first position that holds a record
\* equal to x
IndexOf(xs, x) ==
    CHOOSE i \in DOMAIN xs : xs[i] = x /\ \A j \in 1..(i - 1) : xs[j] # x

NameOf(xs) == [i \in DOMAIN xs |-> xs[i].name]

NumRecords ==
    Len(characters) + Len(story_arcs) + Len(milestones) + Len(dialogue_scenes)

\* the export text of an earlier run is gone
ExportGone ==
    /\ format_type' = ""
    /\ export_result' = NoResult
    /\ UNCHANGED <<analysis, warnings>>
    /\ UNCHANGED dialogue_vars

\* app.py:17-28
Init ==
    /\ story_concept = <<>>
    /\ characters = <<>>
    /\ story_arcs = <<>>
    /\ milestones = <<>>
    /\ dialogue_scenes = <<>>
    /\ InitResults

\* app.py:80-82
SaveConcept(concept) ==
    /\ op' = "save_concept"
    /\ story_concept' = concept
    /\ widget_input' = PyNone
    /\ UNCHANGED lists
    /\ ExportGone

\* the character form without the test of char_name
SubmitCharacterUnchecked(char_name, char_role, now) ==
    /\ op' = "submit_character"
    /\ widget_input' = char_name
    /\ characters' = Append(characters, create_character(char_name, char_role, now))
    /\ UNCHANGED <<story_concept, story_arcs, milestones, dialogue_scenes>>
    /\ ExportGone

\* app.py:130-139
SubmitCharacter(char_name, char_role, now) ==
    /\ op' = "submit_character"
    /\ widget_input' = char_name
    /\ characters' = IF char_name # ""
                     THEN Append(characters, create_character(char_name, char_role, now))
                     ELSE characters
    /\ UNCHANGED <<story_concept, story_arcs, milestones, dialogue_scenes>>
    /\ ExportGone

\* xs without the entries equal to x
Without(xs, x) == SelectSeq(xs, LAMBDA y : y # x)

\* a deletion that also takes the character's name out of every arc and scene
DeleteCharacterCascade(i) ==
    /\ i \in DOMAIN characters
    /\ op' = "delete_character"
    /\ widget_input' = PyNone
    /\ characters' = RemoveAt(characters, i)
    /\ story_arcs' = [a \in DOMAIN story_arcs |->
                         [story_arcs[a] EXCEPT
                             !.characters = Without(@, characters[i].name)]]
    /\ dialogue_scenes' = [d \in DOMAIN dialogue_scenes |->
                              [dialogue_scenes[d] EXCEPT
                                  !.characters = Without(@, characters[i].name)]]
    /\ UNCHANGED <<story_concept, milestones>>
    /\ ExportGone

\* app.py:158-160
DeleteCharacter(i) ==
    /\ i \in DOMAIN characters
    /\ op' = "delete_character"
    /\ widget_input' = PyNone
    /\ characters' = RemoveAt(characters, i)
    /\ UNCHANGED <<story_concept, story_arcs, milestones, dialogue_scenes>>
    /\ ExportGone

\* app.py:182-186: what the multiselect of character names can return
Selections(names) == {<<>>} \cup {<<names[i]>> : i \in DOMAIN names}

\* app.py:188-197
SubmitArc(arc_name, arc_start, arc_end, involved_chars, now) ==
    /\ involved_chars \in Selections(NameOf(characters))
    /\ op' = "submit_arc"
    /\ widget_input' = arc_name
    /\ story_arcs' = IF arc_name # ""
                     THEN Append(story_arcs,
                                 create_story_arc(arc_name, arc_start, arc_end,
                                                  involved_chars, now))
                     ELSE story_arcs
    /\ UNCHANGED <<story_concept, characters, milestones, dialogue_scenes>>
    /\ ExportGone

\* app.py:217-219
DeleteArc(i) ==
    /\ i \in DOMAIN story_arcs
    /\ op' = "delete_arc"
    /\ widget_input' = PyNone
    /\ story_arcs' = RemoveAt(story_arcs, i)
    /\ UNCHANGED <<story_concept, characters, milestones, dialogue_scenes>>
    /\ ExportGone

\* app.py:247-251: what the "Related Arc" selectbox can return
RelatedArcOptions == {"None"} \cup Range(NameOf(story_arcs))

\* app.py:253-262
SubmitMilestone(milestone_name, milestone_chapter, milestone_impact, related_arc, now) ==
    /\ related_arc \in RelatedArcOptions
    /\ op' = "submit_milestone"
    /\ widget_input' = milestone_name
    /\ milestones' =
          IF milestone_name # ""
          THEN Append(milestones,
                      create_milestone(milestone_name, milestone_chapter,
                                       milestone_impact,
                                       IF related_arc # "None" THEN related_arc
                                       ELSE PyNone, now))
          ELSE milestones
    /\ UNCHANGED <<story_concept, characters, story_arcs, dialogue_scenes>>
    /\ ExportGone

\* a deletion that pops the position of the sorted view from the unsorted list
DeleteMilestoneBySortedIndex(k) ==
    LET sorted_milestones == SortedByChapter(milestones) IN
    /\ k \in DOMAIN sorted_milestones
    /\ op' = "delete_milestone"
    /\ widget_input' = sorted_milestones[k]
    /\ milestones' = RemoveAt(milestones, k)
    /\ UNCHANGED <<story_concept, characters, story_arcs, dialogue_scenes>>
    /\ ExportGone

\* app.py:269-288: the Delete button of the k-th milestone of the sorted
\* view.  The button's key is the index found by list.index; st.button
\* raises on a key the run has used already, so the run that draws a second
\* button with the key of an earlier one ends there: that button and the
\* ones after it are never shown.
DeleteMilestone(k) ==
    LET sorted_milestones == SortedByChapter(milestones) IN
    /\ k \in DOMAIN sorted_milestones
    /\ LET milestone == sorted_milestones[k]
           milestone_idx == IndexOf(milestones, milestone) IN
       /\ \A i, j \in 1..k :
             i < j => IndexOf(milestones, sorted_milestones[i])
                        # IndexOf(milestones, sorted_milestones[j])
       /\ op' = "delete_milestone"
       /\ widget_input' = milestone
       /\ milestones' = RemoveAt(milestones, milestone_idx)
    /\ UNCHANGED <<story_concept, characters, story_arcs, dialogue_scenes>>
    /\ ExportGone

\* app.py:300-326; the scene name is not checked
AddScene(scene_name, scene_chapter, scene_characters, branches) ==
    /\ characters # <<>>
    /\ scene_characters \in Selections(NameOf(characters)) \ {<<>>}
    /\ op' = "add_scene"
    /\ widget_input' = PyNone
    /\ dialogue_scenes' = Append(dialogue_scenes,
                                 create_scene(scene_name, scene_chapter,
                                              scene_characters, branches))
    /\ UNCHANGED <<story_concept, characters, story_arcs, milestones>>
    /\ ExportGone

\* app.py:331-351
GenerateExport(export_format, now) ==
    /\ characters # <<>> \/ story_arcs # <<>> \/ milestones # <<>>
          \/ dialogue_scenes # <<>>
    /\ export_format \in KnownFormats
    /\ ExportScript(export_format, now)

Next ==
    \/ \E concept \in SessionConcepts : SaveConcept(concept)
    \/ \E n \in CharacterNames, now \in SessionClock :
          NumRecords < MaxSession /\ SubmitCharacter(n, "Main Character", now)
    \/ \E i \in 1..MaxSession : DeleteCharacter(i)
    \/ \E n \in ArcNames, now \in SessionClock :
          \E sel \in Selections(NameOf(characters)) :
              NumRecords < MaxSession
                  /\ SubmitArc(n, MinChapter, MinChapter + 1, sel, now)
    \/ \E i \in 1..MaxSession : DeleteArc(i)
    \/ \E n \in MilestoneNames, c \in SessionChapters, now \in SessionClock :
          \E rel \in RelatedArcOptions :
              NumRecords < MaxSession /\ SubmitMilestone(n, c, "High", rel, now)
    \/ \E k \in 1..MaxSession : DeleteMilestone(k)
    \/ \E sel \in Selections(NameOf(characters)) :
          NumRecords < MaxSession /\ AddScene("Scene", MinChapter, sel, <<"Yes">>)
    \/ \E fmt \in KnownFormats, now \in SessionClock : GenerateExport(fmt, now)

Spec == Init /\ [][Next]_vars

-----------------------------------------------------------------------------
(* Readers of the session *)

\* the names a list of arcs or scenes gives for its characters
NamedCharacters(xs) == UNION {Range(xs[i].characters) : i \in DOMAIN xs}

\* an arc or a scene names a character that is not in the characters list
OrphanedCharacter ==
    \E n \in NamedCharacters(story_arcs) \cup NamedCharacters(dialogue_scenes) :
        n \notin Range(NameOf(characters))

\* a milestone names a related arc that is not in the story_arcs list
OrphanedArc ==
    \E m \in DOMAIN milestones :
        /\ milestones[m].related_arc # PyNone
        /\ milestones[m].related_arc \notin Range(NameOf(story_arcs))

\* every record of old is still in new, as it was
AllKept(old, new) == Range(old) \subseteq Range(new)

\* new is old with one record added at the end
IsAppend(old, new) ==
    Len(new) = Len(old) + 1 /\ SubSeq(new, 1, Len(old)) = old

\* new is old with one record taken out
IsRemoval(old, new) == \E i \in DOMAIN old : new = RemoveAt(old, i)

\* new is old, or old after an append or a removal: no record of old changed
NoRecordModified(old, new) ==
    new = old \/ IsAppend(old, new) \/ IsRemoval(old, new)

(* C12: deleting a character leaves story_arcs, milestones and             *)
(* dialogue_scenes unchanged, and deleting a story arc leaves characters,  *)
(* milestones and dialogue_scenes unchanged; a state in which an arc or    *)
(* scene names a character, or a milestone a related arc, that is no       *)
(* longer in its list is reachable, and no operation rejects or repairs    *)
(* it: an arc, milestone or scene leaves its list only by its own          *)
(* deletion and stays as it was, and the export of such a state returns.   *)
C12_DeleteLeavesReferences ==
    [][/\ op' = "delete_character" =>
             /\ IsRemoval(characters, characters')
             /\ UNCHANGED <<story_arcs, milestones, dialogue_scenes>>
       /\ op' = "delete_arc" =>
             /\ IsRemoval(story_arcs, story_arcs')
             /\ UNCHANGED <<characters, milestones, dialogue_scenes>>
       /\ op' # "delete_arc" => AllKept(story_arcs, story_arcs')
       /\ op' # "delete_milestone" => AllKept(milestones, milestones')
       /\ AllKept(dialogue_scenes, dialogue_scenes')
       /\ (op' = "export" /\ (OrphanedCharacter \/ OrphanedArc)) =>
             /\ ~export_result'.raised
             /\ lists' = lists]_vars

\* the character "Ava" was deleted while an arc names her
C12_Witness ==
    /\ op = "delete_character"
    /\ characters = <<>>
    /\ \E a \in DOMAIN story_arcs : "Ava" \in Range(story_arcs[a].characters)
    /\ OrphanedCharacter

\* the arc "Arc" was deleted while a milestone names it
C12_WitnessArc ==
    /\ op = "delete_arc"
    /\ story_arcs = <<>>
    /\ \E m \in DOMAIN milestones : milestones[m].related_arc = "Arc"
    /\ OrphanedArc

\* an orphaned state was exported
C12_WitnessExport ==
    /\ op = "export"
    /\ OrphanedCharacter
    /\ ~export_result.raised

(* C13, as stated: when two milestones share a chapter, the lookup by      *)
(* value resolves, for some Delete button, to a record other than the one  *)
(* the button belongs to, so that a record different from the clicked one  *)
(* is removed.                                                             *)
C13_SharedChapterRemovesOther ==
    (\E i, j \in DOMAIN milestones :
        i # j /\ milestones[i].chapter = milestones[j].chapter)
    => \E k \in DOMAIN milestones :
          LET milestone == SortedByChapter(milestones)[k] IN
          milestones[IndexOf(milestones, milestone)] # milestone

(* C13, amended: milestone deletion re-locates the clicked record in the   *)
(* unsorted session list by value equality (the first equal record) after  *)
(* the list was displayed sorted by chapter; the record removed is equal   *)
(* in every field to the one whose Delete button was clicked, also when    *)
(* two milestones share a chapter: every other record stays in the list.   *)
C13_DeleteRemovesClicked ==
    [][op' = "delete_milestone" =>
          \E i \in DOMAIN milestones :
              /\ milestones[i] = widget_input'
              /\ \A j \in 1..(i - 1) : milestones[j] # widget_input'
              /\ milestones' = RemoveAt(milestones, i)
              /\ \A j \in DOMAIN milestones :
                    milestones[j] # widget_input'
                        => milestones[j] \in Range(milestones')]_vars

\* "Duel" was deleted while "Reveal", of the same chapter, stays
C13_Witness ==
    /\ op = "delete_milestone"
    /\ widget_input.name = "Duel"
    /\ widget_input \notin Range(milestones)
    /\ \E m \in DOMAIN milestones :
          /\ milestones[m].name = "Reveal"
          /\ milestones[m].chapter = widget_input.chapter

SubmitOps == {"submit_character", "submit_arc", "submit_milestone"}

\* every record of the three lists has a name
NamesNonEmpty ==
    /\ \A i \in DOMAIN characters : characters[i].name # ""
    /\ \A i \in DOMAIN story_arcs : story_arcs[i].name # ""
    /\ \A i \in DOMAIN milestones : milestones[i].name # ""

(* C14: every record of characters, story_arcs and milestones has a        *)
(* non-empty name; a submission with an empty name leaves all session      *)
(* lists unchanged, a submission with a non-empty name appends exactly one *)
(* record, of that name, at the end of its own list, and no operation      *)
(* modifies a record already in a list.                                    *)
C14_NamesNonEmpty ==
    /\ []NamesNonEmpty
    /\ [][/\ (op' \in SubmitOps /\ widget_input' = "") => lists' = lists
          /\ (op' = "submit_character" /\ widget_input' # "") =>
                /\ IsAppend(characters, characters')
                /\ characters'[Len(characters')].name = widget_input'
                /\ UNCHANGED <<story_arcs, milestones, dialogue_scenes>>
          /\ (op' = "submit_arc" /\ widget_input' # "") =>
                /\ IsAppend(story_arcs, story_arcs')
                /\ story_arcs'[Len(story_arcs')].name = widget_input'
                /\ UNCHANGED <<characters, milestones, dialogue_scenes>>
          /\ (op' = "submit_milestone" /\ widget_input' # "") =>
                /\ IsAppend(milestones, milestones')
                /\ milestones'[Len(milestones')].name = widget_input'
                /\ UNCHANGED <<characters, story_arcs, dialogue_scenes>>
          /\ NoRecordModified(characters, characters')
          /\ NoRecordModified(story_arcs, story_arcs')
          /\ NoRecordModified(milestones, milestones')
          /\ NoRecordModified(dialogue_scenes, dialogue_scenes')]_vars

\* the milestone form submitted with its name left empty, with records in
\* two lists
C14_Witness ==
    /\ op = "submit_milestone"
    /\ widget_input = ""
    /\ characters # <<>> /\ milestones # <<>>

\* a milestone submitted with a name, after another
C14_WitnessAppend ==
    /\ op = "submit_milestone"
    /\ widget_input = "Duel"
    /\ Len(milestones) = 2
    /\ milestones[2].name = "Duel"


=============================================================================
